---- MODULE Spec2Model ----
(***************************************************************************)
(* Binary STL decoder of src/loaders/binary-stl.ts (parse), modelled as a  *)
(* state machine: a byte buffer is handed to parse, which either returns a *)
(* ModelData record or lets a DataView RangeError escape.                  *)
(*                                                                         *)
(* Numbers.  A byte is 0..255.  A 32-bit word read by getUint32 is kept as *)
(* its four base-256 digits, most significant first, so that words with    *)
(* the top bit set stay representable.  A 32-bit float is the record of    *)
(* its IEEE-754 fields [sign, exp, mant].  A double produced by a division *)
(* of two small integers is the exact reduced fraction [num, den]; it is   *)
(* rounded to a 32-bit float when stored into a Float32Array.              *)
(*                                                                         *)
(* The second part models the components that own a render loop: the STL   *)
(* CubeCanvas (load, initBuffers, draw), the OBJ CubeCanvas and            *)
(* ThreeDLoader.  The calls they make on gl, window and the loaders are    *)
(* kept in a log; times are thousandths of a second, angles                *)
(* ten-thousandths of a radian.                                            *)
(***************************************************************************)
EXTENDS Integers, Sequences, FiniteSets, TLC

VARIABLES data, result, pc,
          component, effect, calls, loops, refCurrent, deps, renders,
          clock, epoch

vars == <<data, result, pc,
          component, effect, calls, loops, refCurrent, deps, renders,
          clock, epoch>>

\* The state of the components and their render loops.
renderVars == <<component, effect, calls, loops, refCurrent, deps, renders,
                clock, epoch>>

(***************************************************************************)
(* Bounds of the explored inputs.                                          *)
(***************************************************************************)
MaxFacets == 2

MaxMarkers == 2

\* Frames a render loop runs while its component is mounted.
MaxFrames == 3

\* Times a component is rendered.
MaxRenders == 2

(***************************************************************************)
(* Numeric values.                                                         *)
(***************************************************************************)
RECURSIVE Gcd(_, _)
Gcd(a, b) == IF b = 0 THEN a ELSE Gcd(b, a % b)

\* a / b on doubles, for integers 0 <= a and 0 < b: the exact quotient.
Quot(a, b) == [num |-> a \div Gcd(a, b), den |-> b \div Gcd(a, b)]

F32(s, e, m) == [sign |-> s, exp |-> e, mant |-> m]

F32Zero == F32(0, 0, 0)

Pow2_23 == 2^23

RECURSIVE Normalise(_, _, _)
Normalise(n, d, k) == IF n >= d THEN <<n, k>> ELSE Normalise(2 * n, d, k + 1)

\* Rounding of the fraction q (0 <= q <= 1) to the nearest 32-bit float,
\* ties to even.
RoundQuot(q) ==
    IF q.num = 0 THEN F32Zero
    ELSE LET nk == Normalise(q.num, q.den, 0)
             a == nk[1] - q.den
             quo == (a * Pow2_23) \div q.den
             rem == (a * Pow2_23) % q.den
             up == 2 * rem > q.den \/ (2 * rem = q.den /\ quo % 2 = 1)
             m == IF up THEN quo + 1 ELSE quo
         IN  IF m = Pow2_23 THEN F32(0, 127 - nk[2] + 1, 0)
             ELSE F32(0, 127 - nk[2], m)

\* The conversion a Float32Array applies to a stored number: a value that
\* is a 32-bit float already is kept, a double is rounded.
Fround(v) == IF "num" \in DOMAIN v THEN RoundQuot(v) ELSE v

(***************************************************************************)
(* Float32Array.                                                           *)
(***************************************************************************)
Float32Array(n) == [k \in 1..n |-> F32Zero]

\* arr[idx] = v; a store outside the array is ignored.
Store(arr, idx, v) ==
    IF idx >= 0 /\ idx < Len(arr) THEN [arr EXCEPT ![idx + 1] = Fround(v)] ELSE arr

(***************************************************************************)
(* DataView over the buffer d (a sequence of bytes; offset k is d[k+1]).   *)
(***************************************************************************)
\* A read of size bytes at off throws RangeError unless this holds.
InRange(d, off, size) == off >= 0 /\ off + size <= Len(d)

getUint8(d, off) == d[off + 1]

getUint16(d, off, littleEndian) ==
    IF littleEndian THEN d[off + 1] + 256 * d[off + 2]
    ELSE 256 * d[off + 1] + d[off + 2]

\* The digits of the word, most significant first.
getUint32(d, off, littleEndian) ==
    IF littleEndian THEN <<d[off + 4], d[off + 3], d[off + 2], d[off + 1]>>
    ELSE <<d[off + 1], d[off + 2], d[off + 3], d[off + 4]>>

\* The number a word stands for (words below 2^31 only).
WordValue(w) == ((w[1] * 256 + w[2]) * 256 + w[3]) * 256 + w[4]

getFloat32(d, off, littleEndian) ==
    LET w == getUint32(d, off, littleEndian)
    IN  F32(w[1] \div 128,
            (w[1] % 128) * 2 + w[2] \div 128,
            (w[2] % 128) * 65536 + w[3] * 256 + w[4])

(***************************************************************************)
(* parse, lines 1-100.                                                     *)
(***************************************************************************)
\* An optional Float32Array: <<>> is null, <<arr>> is the array arr.
Null == <<>>

Some(arr) == <<arr>>

\* Mutant of Truthy: an empty array taken to be falsy.
TruthyNonEmpty(opt) == opt # <<>> /\ Len(opt[1]) > 0

\* Truthiness of `colors`: an object, even a zero-length array, is truthy.
Truthy(opt) == opt # Null

\* 0x434F4C4F, "COLO", as a big-endian word.
COLO == <<67, 79, 76, 79>>

\* The thrown error that escapes parse.
RangeError == [error |-> "RangeError"]

IsError(r) == "error" \in DOMAIN r

\* Mutant of ArrayLength: one slot per vertex instead of three.
ArrayLengthPerVertex(faces) == faces * 3

\* faces * 3 * 3, the length of every output array.
ArrayLength(faces) == faces * 3 * 3

\* Mutant of HeaderScanEnd: the scan runs one index further.
HeaderScanEndLate == 80 - 9

\* The header scan stops before this index.
HeaderScanEnd == 80 - 10

dataOffset == 84

\* Mutant of faceLength: the two attribute bytes of a record forgotten.
faceLengthNoAttribute == 12 * 4

faceLength == 12 * 4 + 2

\* The locals of parse after lines 3-14.
InitLocals(d) ==
    [faces |-> WordValue(getUint32(d, 80, TRUE)),
     r |-> Quot(0, 1), g |-> Quot(0, 1), b |-> Quot(0, 1),
     hasColors |-> FALSE,
     defaultR |-> Quot(0, 1), defaultG |-> Quot(0, 1), defaultB |-> Quot(0, 1),
     alpha |-> Quot(0, 1),
     colors |-> Null]

\* Mutant of MarkerAt: the '=' after "COLOR" not tested.
MarkerAtNoEquals(d, index) ==
    /\ getUint32(d, index, FALSE) = COLO
    /\ getUint8(d, index + 4) = 82

\* The condition of the if at lines 21-23; && evaluates the byte reads only
\* after the word matched.
MarkerAt(d, index) ==
    /\ getUint32(d, index, FALSE) = COLO
    /\ getUint8(d, index + 4) = 82
    /\ getUint8(d, index + 5) = 61

\* Mutant of ScanStep: the default bytes read one place too far.
ScanStepShifted(d, index, st) ==
    IF MarkerAt(d, index)
    THEN [st EXCEPT !.hasColors = TRUE,
                    !.colors = Some(Float32Array(ArrayLength(st.faces))),
                    !.defaultR = Quot(getUint8(d, index + 7), 255),
                    !.defaultG = Quot(getUint8(d, index + 8), 255),
                    !.defaultB = Quot(getUint8(d, index + 9), 255),
                    !.alpha = Quot(getUint8(d, index + 6), 255)]
    ELSE st

\* Mutant of ScanStep: a match is ignored once a marker has been found.
ScanStepFirst(d, index, st) ==
    IF MarkerAt(d, index) /\ ~st.hasColors
    THEN [st EXCEPT !.hasColors = TRUE,
                    !.colors = Some(Float32Array(ArrayLength(st.faces))),
                    !.defaultR = Quot(getUint8(d, index + 6), 255),
                    !.defaultG = Quot(getUint8(d, index + 7), 255),
                    !.defaultB = Quot(getUint8(d, index + 8), 255),
                    !.alpha = Quot(getUint8(d, index + 9), 255)]
    ELSE st

\* One iteration of the header loop, lines 21-33.
ScanStep(d, index, st) ==
    IF MarkerAt(d, index)
    THEN [st EXCEPT !.hasColors = TRUE,
                    !.colors = Some(Float32Array(ArrayLength(st.faces))),
                    !.defaultR = Quot(getUint8(d, index + 6), 255),
                    !.defaultG = Quot(getUint8(d, index + 7), 255),
                    !.defaultB = Quot(getUint8(d, index + 8), 255),
                    !.alpha = Quot(getUint8(d, index + 9), 255)]
    ELSE st

\* The iterations lo, lo+1, ..., hi-1 of the header loop, lines 19-34, run in
\* this order from the locals st.  The range is halved, and the first half
\* evaluated before the second starts (the test on its hasColors, always a
\* boolean, does only that), to keep the evaluation shallow.
RECURSIVE ScanHeader(_, _, _, _)
ScanHeader(d, lo, hi, st) ==
    IF hi <= lo THEN st
    ELSE IF hi = lo + 1 THEN ScanStep(d, lo, st)
    ELSE LET mid == (lo + hi) \div 2
             firstHalf == ScanHeader(d, lo, mid, st)
         IN  IF firstHalf.hasColors \in BOOLEAN
             THEN ScanHeader(d, mid, hi, firstHalf)
             ELSE firstHalf

\* Mutant of FacetColor: the fields unpacked in the order blue, green, red.
FacetColorBGR(packedColor, st) ==
    IF (packedColor \div 32768) % 2 = 0
    THEN [st EXCEPT !.r = Quot((packedColor \div 1024) % 32, 31),
                    !.g = Quot((packedColor \div 32) % 32, 31),
                    !.b = Quot(packedColor % 32, 31)]
    ELSE [st EXCEPT !.r = st.defaultR, !.g = st.defaultG, !.b = st.defaultB]

\* Lines 54-68: the colour of a facet from its packed colour.
FacetColor(packedColor, st) ==
    IF (packedColor \div 32768) % 2 = 0
    THEN [st EXCEPT !.r = Quot(packedColor % 32, 31),
                    !.g = Quot((packedColor \div 32) % 32, 31),
                    !.b = Quot((packedColor \div 1024) % 32, 31)]
    ELSE [st EXCEPT !.r = st.defaultR, !.g = st.defaultG, !.b = st.defaultB]

\* Mutant of vertexstart: the vertices taken to start at the record start.
vertexstartFromZero(start, i) == start + (i - 1) * 12

vertexstart(start, i) == start + i * 12

componentIdx(face, i) == (face * 3 * 3) + ((i - 1) * 3)

\* Lines 74-89: the body of the vertex loop for vertex i of facet face.
VertexStep(d, start, face, i, normal, st) ==
    LET vs == vertexstart(start, i)
        ci == componentIdx(face, i)
        vertices == Store(Store(Store(st.vertices,
                        ci, getFloat32(d, vs, TRUE)),
                        ci + 1, getFloat32(d, vs + 4, TRUE)),
                        ci + 2, getFloat32(d, vs + 8, TRUE))
        normals == Store(Store(Store(st.normals,
                        ci, normal[1]), ci + 1, normal[2]), ci + 2, normal[3])
        colors == IF Truthy(st.colors)
                  THEN Some(Store(Store(Store(st.colors[1],
                        ci, st.r), ci + 1, st.g), ci + 2, st.b))
                  ELSE st.colors
    IN  [st EXCEPT !.vertices = vertices, !.normals = normals, !.colors = colors]

\* The reads of one facet iteration, as <<offset, size>>: the normal, the
\* packed colour when colors is set, and the three vertices.
FaceReads(start, st) ==
    {<<start, 4>>, <<start + 4, 4>>, <<start + 8, 4>>}
    \cup (IF Truthy(st.colors) THEN {<<start + 48, 2>>} ELSE {})
    \cup {<<vertexstart(start, i) + c, 4>> : i \in 1..3, c \in {0, 4, 8}}

\* Lines 45-91: one iteration of the facet loop, all of its reads in range.
FaceStep(d, face, st) ==
    LET start == dataOffset + face * faceLength
        normal == <<getFloat32(d, start, TRUE),
                    getFloat32(d, start + 4, TRUE),
                    getFloat32(d, start + 8, TRUE)>>
        st1 == IF Truthy(st.colors)
               THEN FacetColor(getUint16(d, start + 48, TRUE), st)
               ELSE st
    IN  VertexStep(d, start, face, 3, normal,
            VertexStep(d, start, face, 2, normal,
                VertexStep(d, start, face, 1, normal, st1)))

\* The facet loop, lines 43-92, from iteration face on; a read outside the
\* buffer throws and ends parse.
RECURSIVE FaceLoop(_, _, _)
FaceLoop(d, face, st) ==
    IF face < st.faces
    THEN IF \A rd \in FaceReads(dataOffset + face * faceLength, st) :
                InRange(d, rd[1], rd[2])
         THEN FaceLoop(d, face + 1, FaceStep(d, face, st))
         ELSE RangeError
    ELSE st

\* Lines 94-99: the returned record.
ReturnModel(st) ==
    IF st.hasColors /\ Truthy(st.colors)
    THEN [hasColors |-> st.hasColors, position |-> st.vertices,
          normals |-> st.normals, alpha |-> st.alpha, colors |-> st.colors[1]]
    ELSE [hasColors |-> st.hasColors, position |-> st.vertices,
          normals |-> st.normals]

parse(d) ==
    IF ~InRange(d, 80, 4) THEN RangeError
    ELSE LET st0 == ScanHeader(d, 0, HeaderScanEnd, InitLocals(d))
             st1 == [f \in DOMAIN st0 \cup {"vertices", "normals"} |->
                        IF f \in {"vertices", "normals"}
                        THEN Float32Array(ArrayLength(st0.faces))
                        ELSE st0[f]]
             st2 == FaceLoop(d, 0, st1)
         IN  IF IsError(st2) THEN st2 ELSE ReturnModel(st2)

(***************************************************************************)
(* The buffers handed to parse: binary STL files laid out as parse reads   *)
(* them (80 header bytes, the facet count at 80, 50-byte facet records     *)
(* from 84 on), cut short or extended by a few bytes.                      *)
(***************************************************************************)
Zeros(n) == [k \in 1..n |-> 0]

\* d with bytes written at offset off.
Place(d, off, bytes) ==
    [k \in 1..Len(d) |->
        IF k - 1 >= off /\ k - 1 < off + Len(bytes) THEN bytes[k - off] ELSE d[k]]

\* d cut or zero-extended to len bytes.
Resize(d, len) == [k \in 1..len |-> IF k <= Len(d) THEN d[k] ELSE 0]

\* The little-endian bytes of a 32-bit float.
Float32Bytes(f) ==
    <<f.mant % 256, (f.mant \div 256) % 256,
      (f.exp % 2) * 128 + f.mant \div 65536, f.sign * 128 + f.exp \div 2>>

Uint16Bytes(p) == <<p % 256, p \div 256>>

Triple(t) == Float32Bytes(t[1]) \o Float32Bytes(t[2]) \o Float32Bytes(t[3])

\* A 50-byte facet record.
FacetBytes(f) ==
    Triple(f.normal) \o Triple(f.v1) \o Triple(f.v2) \o Triple(f.v3)
        \o Uint16Bytes(f.packed)

\* The triangle (0,0,0), (1,0,0), (0,1,0) with normal (0,0,1).
UnitTriangle ==
    [normal |-> <<F32Zero, F32Zero, F32(0, 127, 0)>>,
     v1 |-> <<F32Zero, F32Zero, F32Zero>>,
     v2 |-> <<F32(0, 127, 0), F32Zero, F32Zero>>,
     v3 |-> <<F32Zero, F32(0, 127, 0), F32Zero>>]

\* A triangle of twelve distinct values: normal (1, 0.5, -2.5), vertices
\* (2, 3, -1), (0.25, -4, 4), (-0.75, 1.5, 0.1).
SkewTriangle ==
    [normal |-> <<F32(0, 127, 0), F32(0, 126, 0), F32(1, 128, 2097152)>>,
     v1 |-> <<F32(0, 128, 0), F32(0, 128, 4194304), F32(1, 127, 0)>>,
     v2 |-> <<F32(0, 125, 0), F32(1, 129, 0), F32(0, 129, 0)>>,
     v3 |-> <<F32(1, 126, 4194304), F32(0, 127, 4194304), F32(0, 123, 5033165)>>]

WithPacked(t, p) ==
    [normal |-> t.normal, v1 |-> t.v1, v2 |-> t.v2, v3 |-> t.v3, packed |-> p]

\* Packed colours: R=31 alone (0x001F); bit 15 with R=5, G=20, B=10
\* (0xAA85); R=5, G=20, B=10 (0x2A85).
Facets ==
    {WithPacked(UnitTriangle, 31), WithPacked(UnitTriangle, 43653),
     WithPacked(SkewTriangle, 10885)}

\* "COLOR=" followed by the four bytes rgba.
MarkerBytes(rgba) == <<67, 79, 76, 79, 82, 61>> \o rgba

\* "COLOR:" followed by four bytes: not a marker.
DecoyBytes(rgba) == <<67, 79, 76, 79, 82, 58>> \o rgba

\* Where a header may carry a marker.
MarkerOffsets == {0, 6, 69, 70}

\* Where a header may carry the decoy.
DecoyOffsets == {40}

RGBAs == {<<128, 128, 128, 255>>, <<255, 0, 51, 0>>}

\* The header h with the placements of pl (offset -> rgba) written in
\* ascending order of offset.
RECURSIVE PlaceMarkers(_, _, _)
PlaceMarkers(h, offs, pl) ==
    IF offs = {} THEN h
    ELSE LET o == CHOOSE x \in offs : \A y \in offs : x <= y
         IN  PlaceMarkers(
                Place(h, o, IF o \in DecoyOffsets THEN DecoyBytes(pl[o])
                            ELSE MarkerBytes(pl[o])),
                offs \ {o}, pl)

RECURSIVE Concat(_)
Concat(fs) == IF fs = <<>> THEN <<>> ELSE FacetBytes(Head(fs)) \o Concat(Tail(fs))

\* The file with the placements pl in its header and the facets fs.
StlFile(pl, fs) ==
    PlaceMarkers(Zeros(80), DOMAIN pl, pl)
        \o <<Len(fs) % 256, Len(fs) \div 256, 0, 0>>
        \o Concat(fs)

\* Bytes added to (or, when negative, cut from) the end of the file.
LengthDeltas == {3, 0, -2, -3}

\* The placements of a header: at most MaxMarkers offsets, each with its
\* four bytes (the decoy always with the same four).
Placements ==
    { pl \in UNION { [offs -> RGBAs] :
                        offs \in { o \in SUBSET (MarkerOffsets \cup DecoyOffsets) :
                                        Cardinality(o) <= MaxMarkers } } :
        \A o \in DOMAIN pl \cap DecoyOffsets : pl[o] = <<128, 128, 128, 255>> }

Inputs ==
    { Resize(StlFile(pl, fs), Len(StlFile(pl, fs)) + delta) :
        pl \in Placements,
        fs \in UNION { [1..n -> Facets] : n \in 0..MaxFacets },
        delta \in LengthDeltas }

(***************************************************************************)
(* The state machine: the buffer, and the outcome of parse on it.          *)
(***************************************************************************)
Pending == [pending |-> TRUE]

\* No component is mounted.
NoComponent ==
    /\ component = "none"
    /\ effect = "notRun"
    /\ calls = <<>>
    /\ loops = <<>>
    /\ refCurrent = FALSE
    /\ deps = "unset"
    /\ renders = 0
    /\ clock = 0
    /\ epoch = 0

Init ==
    /\ data \in Inputs
    /\ result = Pending
    /\ pc = "parse"
    /\ NoComponent

\* parse(buffer), line 106: returns the model or throws.
Parse ==
    /\ pc = "parse"
    /\ result' = parse(data)
    /\ pc' = "done"
    /\ UNCHANGED data
    /\ UNCHANGED renderVars

Next == Parse

Spec == Init /\ [][Next]_vars

(***************************************************************************)
(* What the properties below read off a state: the buffer as a file, and   *)
(* the outcome of parse.                                                   *)
(***************************************************************************)
Done == pc = "done"

\* parse returned a model.
Returned == Done /\ ~IsError(result)

ByteAt(off) == data[off + 1]

\* The facet count stored at offset 80 (buffers of at least 84 bytes).
FacetCount ==
    ByteAt(80) + 256 * ByteAt(81) + 65536 * ByteAt(82) + 16777216 * ByteAt(83)

\* The little-endian 32-bit float stored at byte offset off.
StoredFloat(off) ==
    [sign |-> ByteAt(off + 3) \div 128,
     exp |-> (ByteAt(off + 3) % 128) * 2 + ByteAt(off + 2) \div 128,
     mant |-> (ByteAt(off + 2) % 128) * 65536 + ByteAt(off + 1) * 256 + ByteAt(off)]

\* The 16-bit packed colour of facet f.
PackedColor(f) == ByteAt(84 + 50 * f + 48) + 256 * ByteAt(84 + 50 * f + 49)

Bit15(p) == p >= 32768

\* The bytes 'C','O','L','O','R','=' start at offset i.
HasMarkerAt(i) ==
    /\ ByteAt(i) = 67 /\ ByteAt(i + 1) = 79 /\ ByteAt(i + 2) = 76
    /\ ByteAt(i + 3) = 79 /\ ByteAt(i + 4) = 82 /\ ByteAt(i + 5) = 61

\* The offsets in [0, 70) at which the marker starts.
Matches == {i \in 0..69 : HasMarkerAt(i)}

FirstMatch == CHOOSE i \in Matches : \A j \in Matches : i <= j

LastMatch == CHOOSE i \in Matches : \A j \in Matches : j <= i

\* byte / 255 as a 32-bit float.
Unit255(byte) == RoundQuot(Quot(byte, 255))

\* field / 31 as a 32-bit float.
Unit31(field) == RoundQuot(Quot(field, 31))

\* The entries of arr for vertex v of facet f.
VertexTriple(arr, f, v) ==
    <<arr[9 * f + 3 * v + 1], arr[9 * f + 3 * v + 2], arr[9 * f + 3 * v + 3]>>

One == F32(0, 127, 0)

\* C1: for every buffer whose facet count is n and whose length is at least
\* 84 + 50*n, parse returns position and normals of length exactly 9*n and,
\* when colors is present, colors of length 9*n too.
C1_Lengths ==
    (Done /\ Len(data) >= 84 /\ Len(data) >= 84 + 50 * FacetCount) =>
        /\ ~IsError(result)
        /\ Len(result.position) = 9 * FacetCount
        /\ Len(result.normals) = 9 * FacetCount
        /\ "colors" \in DOMAIN result => Len(result.colors) = 9 * FacetCount

C1_Witness ==
    /\ Returned
    /\ FacetCount = MaxFacets
    /\ "colors" \in DOMAIN result
    /\ Len(result.colors) = 9 * MaxFacets
    /\ Len(result.position) = 9 * MaxFacets

\* C2: in a returned model, position[9*f + 3*v + c] is the little-endian
\* float stored at byte offset 84 + 50*f + 12*(v+1) + 4*c, for every facet f,
\* vertex v and component c; the single triangle (0,0,0), (1,0,0), (0,1,0)
\* decodes to position = [0,0,0, 1,0,0, 0,1,0].
C2_Position ==
    /\ Returned =>
        \A f \in 0..(FacetCount - 1), v \in 0..2, c \in 0..2 :
            result.position[9 * f + 3 * v + c + 1]
                = StoredFloat(84 + 50 * f + 12 * (v + 1) + 4 * c)
    /\ (Done /\ data = StlFile(<<>>, <<WithPacked(UnitTriangle, 31)>>)) =>
        /\ ~IsError(result)
        /\ result.position = <<F32Zero, F32Zero, F32Zero,
                               One, F32Zero, F32Zero,
                               F32Zero, One, F32Zero>>

\* The last component of the last vertex of a second facet is 0.1.
C2_Witness ==
    /\ Returned
    /\ FacetCount = 2
    /\ result.position[18] = F32(0, 123, 5033165)
    /\ result.position[10] = F32(0, 128, 0)

\* C3: in a returned model the normal triple of every vertex of facet f is
\* the three floats stored at byte offsets 84 + 50*f, +4 and +8.
C3_NormalBroadcast ==
    Returned =>
        \A f \in 0..(FacetCount - 1), v \in 0..2 :
            VertexTriple(result.normals, f, v)
                = <<StoredFloat(84 + 50 * f), StoredFloat(84 + 50 * f + 4),
                    StoredFloat(84 + 50 * f + 8)>>

\* Two facets with different normals, each broadcast to its own vertices.
C3_Witness ==
    /\ Returned
    /\ FacetCount = 2
    /\ VertexTriple(result.normals, 0, 0) = <<F32Zero, F32Zero, One>>
    /\ VertexTriple(result.normals, 0, 2) = <<F32Zero, F32Zero, One>>
    /\ VertexTriple(result.normals, 1, 0)
            = <<One, F32(0, 126, 0), F32(1, 128, 2097152)>>
    /\ VertexTriple(result.normals, 1, 2)
            = <<One, F32(0, 126, 0), F32(1, 128, 2097152)>>

\* C4: with the marker at offset i (the marker in effect: no marker starts
\* at a greater offset below 70), the model's alpha is byte[i+9]/255 and every
\* facet whose packed colour has bit 15 set carries, at its three vertices,
\* the colours (byte[i+6]/255, byte[i+7]/255, byte[i+8]/255); the default
\* bytes 0x80, 0x80, 0x80, 0xFF give (128/255, 128/255, 128/255) and alpha 1.
C4_DefaultColor ==
    (Returned /\ Matches # {}) =>
        LET i == LastMatch
        IN  /\ "colors" \in DOMAIN result /\ "alpha" \in DOMAIN result
            /\ result.alpha = Quot(ByteAt(i + 9), 255)
            /\ \A f \in 0..(FacetCount - 1), v \in 0..2 :
                Bit15(PackedColor(f)) =>
                    VertexTriple(result.colors, f, v)
                        = <<Unit255(ByteAt(i + 6)), Unit255(ByteAt(i + 7)),
                            Unit255(ByteAt(i + 8))>>
            /\ <<ByteAt(i + 6), ByteAt(i + 7), ByteAt(i + 8), ByteAt(i + 9)>>
                    = <<128, 128, 128, 255>> =>
                /\ result.alpha = [num |-> 1, den |-> 1]
                /\ \A f \in 0..(FacetCount - 1), v \in 0..2 :
                    Bit15(PackedColor(f)) =>
                        VertexTriple(result.colors, f, v)
                            = <<F32(0, 126, 32897), F32(0, 126, 32897),
                                F32(0, 126, 32897)>>

\* A facet with bit 15 set under the default bytes 0xFF, 0x00, 0x33, 0x00.
C4_Witness ==
    /\ Returned
    /\ Matches = {69}
    /\ FacetCount >= 1
    /\ Bit15(PackedColor(0))
    /\ result.alpha = [num |-> 0, den |-> 1]
    /\ VertexTriple(result.colors, 0, 2) = <<One, F32Zero, F32(0, 124, 5033165)>>

\* C5: when the model has colours, every facet whose packed colour p has
\* bit 15 clear carries, at its three vertices, the colours ((p & 31)/31,
\* ((p >> 5) & 31)/31, ((p >> 10) & 31)/31), whatever the header default and
\* the other facets are; R=31, G=0, B=0 decodes to (1.0, 0.0, 0.0).
C5_FacetColor ==
    (Returned /\ "colors" \in DOMAIN result) =>
        \A f \in 0..(FacetCount - 1), v \in 0..2 :
            LET p == PackedColor(f)
            IN  /\ ~Bit15(p) =>
                    VertexTriple(result.colors, f, v)
                        = <<Unit31(p % 32), Unit31((p \div 32) % 32),
                            Unit31((p \div 1024) % 32)>>
                /\ p = 31 =>
                    VertexTriple(result.colors, f, v) = <<One, F32Zero, F32Zero>>

\* A facet with R=5, G=20, B=10 after a facet that took the header default.
C5_Witness ==
    /\ Returned
    /\ "colors" \in DOMAIN result
    /\ FacetCount = 2
    /\ Bit15(PackedColor(0))
    /\ PackedColor(1) = 10885
    /\ VertexTriple(result.colors, 1, 1)
            = <<F32(0, 124, 2435402), F32(0, 126, 2435402), F32(0, 125, 2435402)>>

\* C6: in every returned model colors is present if and only if alpha is
\* present if and only if hasColors is true, also for a facet count of 0,
\* where the colors array is present and empty.
C6_TogetherOrNotAtAll ==
    Returned =>
        /\ ("colors" \in DOMAIN result) = ("alpha" \in DOMAIN result)
        /\ ("colors" \in DOMAIN result) = result.hasColors
        /\ DOMAIN result \subseteq
                {"hasColors", "position", "normals", "colors", "alpha"}

\* A coloured model of no facets: its colors array is present and empty.
C6_Witness ==
    /\ Returned
    /\ FacetCount = 0
    /\ result.hasColors
    /\ "colors" \in DOMAIN result
    /\ result.colors = <<>>
    /\ "alpha" \in DOMAIN result

\* C7: for every buffer of at least 84 bytes, the model parse returns has
\* hasColors = true if and only if 'C','O','L','O','R','=' start at some
\* offset i with 0 <= i < 70 (a marker starting at 70 or later is not
\* recognised); a buffer with facet count 0 and no such marker decodes to
\* empty position and normals and hasColors = false.
C7_MarkerRecognised ==
    /\ (Returned /\ Len(data) >= 84) =>
            (result.hasColors <=> \E i \in 0..69 : HasMarkerAt(i))
    /\ (Done /\ Len(data) >= 84 /\ FacetCount = 0 /\ Matches = {}) =>
            /\ ~IsError(result)
            /\ result.position = <<>>
            /\ result.normals = <<>>
            /\ result.hasColors = FALSE

\* A marker at offset 70 and none below: the model has no colours.
C7_Witness ==
    /\ Returned
    /\ HasMarkerAt(70)
    /\ Matches = {}
    /\ FacetCount = 0
    /\ result.hasColors = FALSE
    /\ result.position = <<>>

\* The buffer is shorter than its facet count requires.
Truncated == Len(data) >= 84 /\ Len(data) < 84 + 50 * FacetCount

\* C8: a buffer truncated mid-facet-record is rejected: parse never returns
\* a model for it.
C8_TruncatedRejected ==
    (Done /\ Truncated) => IsError(result)

\* C9: when the marker starts at two or more offsets in [0, 70), the last
\* match wins: alpha and the default colour of the facets with bit 15 set
\* are the four bytes following the marker at the greatest matching offset.
C9_LastMatchWins ==
    (Returned /\ Cardinality(Matches) >= 2) =>
        /\ result.alpha = Quot(ByteAt(LastMatch + 9), 255)
        /\ \A f \in 0..(FacetCount - 1), v \in 0..2 :
            Bit15(PackedColor(f)) =>
                VertexTriple(result.colors, f, v)
                    = <<Unit255(ByteAt(LastMatch + 6)),
                        Unit255(ByteAt(LastMatch + 7)),
                        Unit255(ByteAt(LastMatch + 8))>>

\* Markers at 0 (bytes 0x80,0x80,0x80,0xFF) and 69 (0xFF,0x00,0x33,0x00):
\* the facet has the colour of the marker at 69.
C9_Witness ==
    /\ Returned
    /\ Matches = {0, 69}
    /\ <<ByteAt(6), ByteAt(7), ByteAt(8), ByteAt(9)>> = <<128, 128, 128, 255>>
    /\ FacetCount >= 1
    /\ Bit15(PackedColor(0))
    /\ result.alpha = [num |-> 0, den |-> 1]
    /\ VertexTriple(result.colors, 0, 0) = <<One, F32Zero, F32(0, 124, 5033165)>>

\* C10 as stated: with two or more matches only the first takes effect:
\* alpha and the default colour are the four bytes following the marker at
\* the smallest matching offset.
C10_FirstMatchWins ==
    (Returned /\ Cardinality(Matches) >= 2) =>
        /\ result.alpha = Quot(ByteAt(FirstMatch + 9), 255)
        /\ \A f \in 0..(FacetCount - 1), v \in 0..2 :
            Bit15(PackedColor(f)) =>
                VertexTriple(result.colors, f, v)
                    = <<Unit255(ByteAt(FirstMatch + 6)),
                        Unit255(ByteAt(FirstMatch + 7)),
                        Unit255(ByteAt(FirstMatch + 8))>>

\* C10 amended: with two or more matches the scan does not stop at the first
\* one; the bytes following the smallest matching offset take effect only
\* where they equal those following the greatest matching offset.
C10_FirstMatchOverridden ==
    (Returned /\ Cardinality(Matches) >= 2) =>
        /\ (result.alpha = Quot(ByteAt(FirstMatch + 9), 255))
                <=> (ByteAt(FirstMatch + 9) = ByteAt(LastMatch + 9))
        /\ \A f \in 0..(FacetCount - 1), v \in 0..2 :
            Bit15(PackedColor(f)) =>
                ((VertexTriple(result.colors, f, v)
                    = <<Unit255(ByteAt(FirstMatch + 6)),
                        Unit255(ByteAt(FirstMatch + 7)),
                        Unit255(ByteAt(FirstMatch + 8))>>)
                 <=> (\A k \in 6..8 :
                        ByteAt(FirstMatch + k) = ByteAt(LastMatch + k)))

\* Markers at 0 (bytes 0xFF,0x00,0x33,0x00) and 69 (0x80,0x80,0x80,0xFF):
\* neither alpha nor the facet's colour is the one of the marker at 0.
C10_Witness ==
    /\ Returned
    /\ Matches = {0, 69}
    /\ <<ByteAt(6), ByteAt(7), ByteAt(8), ByteAt(9)>> = <<255, 0, 51, 0>>
    /\ FacetCount >= 1
    /\ Bit15(PackedColor(0))
    /\ result.alpha = [num |-> 1, den |-> 1]
    /\ VertexTriple(result.colors, 0, 1)
            = <<F32(0, 126, 32897), F32(0, 126, 32897), F32(0, 126, 32897)>>

\* The byte pairs written over the packed colours of a buffer.
PackedAlternatives == {<<0, 0>>, <<255, 255>>, <<31, 0>>}

\* d with the packed colour of facet f + 1 replaced by alt[f + 1], for the
\* facets from f on (bytes beyond the end of d are not written).
RECURSIVE ReplacePacked(_, _, _)
ReplacePacked(d, f, alt) ==
    IF f >= Len(alt) THEN d
    ELSE ReplacePacked(Place(d, 84 + 50 * f + 48, alt[f + 1]), f + 1, alt)

\* The buffers that differ from data at most in bytes +48..+49 of its facet
\* records.
PackedVariants ==
    { ReplacePacked(data, 0, alt) : alt \in [1..FacetCount -> PackedAlternatives] }

\* C11: for a buffer with no COLOR= marker in [0, 70), every buffer that
\* differs from it only in bytes +48..+49 of facet records has the same
\* outcome of parse: the same model, with hasColors = false and neither colors
\* nor alpha.
C11_PackedColorIgnored ==
    (Done /\ Len(data) >= 84 /\ Matches = {}) =>
        /\ \A other \in PackedVariants : parse(other) = result
        /\ ~IsError(result) =>
            /\ result.hasColors = FALSE
            /\ DOMAIN result = {"hasColors", "position", "normals"}

\* A markerless file of two facets with non-zero packed colours, decoded.
C11_Witness ==
    /\ Returned
    /\ Matches = {}
    /\ FacetCount = 2
    /\ Len(data) = 84 + 50 * 2
    /\ PackedColor(0) = 43653
    /\ PackedColor(1) = 10885
    /\ \E other \in PackedVariants : other # data /\ parse(other) = result
    /\ result.hasColors = FALSE


\* ---------------------------------------------------------------------
\* The components: the effect of CubeCanvas, load(), and the render loops.
\* ---------------------------------------------------------------------

\* One call on the host: the call's name, its distinguishing argument, a
\* count where the call takes one, and the loop and frame that issued it
\* (0, 0 for a call made outside a frame callback).
Call(c, a) == [call |-> c, arg |-> a, n |-> 0, loop |-> 0, frame |-> 0]

RECURSIVE InFrame(_, _, _)
InFrame(cs, l, f) ==
    IF cs = <<>> THEN <<>>
    ELSE <<[Head(cs) EXCEPT !.loop = l, !.frame = f]>> \o InFrame(Tail(cs), l, f)

\* loadShader: createShader, shaderSource, compileShader and the status read.
loadShaderCalls(type) ==
    << Call("createShader", type), Call("shaderSource", type),
       Call("compileShader", type), Call("getShaderParameter", type) >>

\* The effect of CubeCanvas up to the program's locations.
ProgramCalls ==
    << Call("clearColor", ""), Call("clearDepth", ""),
       Call("enable", "DEPTH_TEST"), Call("depthFunc", "LEQUAL") >>
    \o loadShaderCalls("VERTEX_SHADER") \o loadShaderCalls("FRAGMENT_SHADER")
    \o << Call("createProgram", ""),
          Call("attachShader", "VERTEX_SHADER"),
          Call("attachShader", "FRAGMENT_SHADER"),
          Call("linkProgram", "") >>

\* Mutant of StlLocationCalls: the position buffer is created before the
\* model is loaded.
StlLocationCallsEagerBuffers ==
    << Call("getAttribLocation", "aVertexPosition"),
       Call("getAttribLocation", "aVertexNormal"),
       Call("getUniformLocation", "uProjectionMatrix"),
       Call("getUniformLocation", "uModelViewMatrix"),
       Call("getUniformLocation", "uVertexColor"),
       Call("getUniformLocation", "uNormalMatrix"),
       Call("createBuffer", "position") >>

StlLocationCalls ==
    << Call("getAttribLocation", "aVertexPosition"),
       Call("getAttribLocation", "aVertexNormal"),
       Call("getUniformLocation", "uProjectionMatrix"),
       Call("getUniformLocation", "uModelViewMatrix"),
       Call("getUniformLocation", "uVertexColor"),
       Call("getUniformLocation", "uNormalMatrix") >>

\* The outcomes of the effect before it loads anything: getContext returns
\* null, a shader or a location is missing (an exception), or all is well.
SetupOutcomes == {"noContext", "throws", "ok"}

\* What fetch and the body read can reject with.
NetworkError == [error |-> "TypeError"]

\* The bodies the server answers '/Box.stl' with: no facet, one facet, two
\* facets after a colour marker, and a file cut short of its facet count.
LoadInputs ==
    { StlFile(<<>>, <<>>),
      StlFile(<<>>, <<WithPacked(UnitTriangle, 31)>>),
      StlFile(0 :> <<128, 128, 128, 255>>,
              <<WithPacked(UnitTriangle, 43653), WithPacked(SkewTriangle, 10885)>>),
      Resize(StlFile(<<>>, <<WithPacked(UnitTriangle, 31)>>), 130) }

\* Mutant of initBuffers: a third buffer for the colours of a model that
\* has them.
initBuffersWithColors(m) ==
    << Call("createBuffer", "position"),
       Call("bindBuffer", "position"),
       [Call("bufferData", "position") EXCEPT !.n = Len(m.position)],
       Call("createBuffer", "normals"),
       Call("bindBuffer", "normals"),
       [Call("bufferData", "normals") EXCEPT !.n = Len(m.normals)] >>
    \o (IF m.hasColors
        THEN << Call("createBuffer", "colors"), Call("bindBuffer", "colors"),
                [Call("bufferData", "colors") EXCEPT !.n = Len(m.colors)] >>
        ELSE <<>>)

\* initBuffers(gl, data): a buffer for data.position, then one for
\* data.normals; nothing else of the model is uploaded.
initBuffers(m) ==
    << Call("createBuffer", "position"),
       Call("bindBuffer", "position"),
       [Call("bufferData", "position") EXCEPT !.n = Len(m.position)],
       Call("createBuffer", "normals"),
       Call("bindBuffer", "normals"),
       [Call("bufferData", "normals") EXCEPT !.n = Len(m.normals)] >>

\* The rest of the effect after initBuffers, up to the first frame request.
StlSceneCalls ==
    << Call("bindBuffer", "position"),
       Call("vertexAttribPointer", "aVertexPosition"),
       Call("enableVertexAttribArray", "aVertexPosition"),
       Call("bindBuffer", "normals"),
       Call("vertexAttribPointer", "aVertexNormal"),
       Call("enableVertexAttribArray", "aVertexNormal"),
       Call("useProgram", ""),
       Call("uniformMatrix4fv", "uProjectionMatrix"),
       Call("uniformMatrix4fv", "uModelViewMatrix"),
       Call("uniform4f", "uVertexColor") >>

requestAnimationFrame == <<Call("requestAnimationFrame", "draw")>>

\* A render loop as the effect leaves it: the closure's time, the angle
\* the model-view matrix has been rotated by, and whether a callback is
\* waiting for the next frame.  Times are in thousandths of a second and
\* angles in ten-thousandths of a radian; first and last are the timestamps
\* of the loop's first and latest frame, start is the clock when the loop
\* was set up, and elapsed is the clock time between the latest frame and
\* the instant before it that time was last set.
NewLoop(t) ==
    [time |-> t, angle |-> 0, deltaTime |-> 0, frames |-> 0, pending |-> 1,
     first |-> 0, last |-> 0, start |-> clock, elapsed |-> 0,
     requested |-> 0, afterUnmount |-> 0]


\* deltaTime * 1.6: the angle of a frame, in ten-thousandths of a radian,
\* for a deltaTime in thousandths of a second.
Rotation(deltaTime) == deltaTime * 16

\* The components of the repository that own a render loop.
Components == {"CubeCanvasStl", "CubeCanvasObj", "ThreeDLoader"}

IsCubeCanvas == component \in {"CubeCanvasStl", "CubeCanvasObj"}

\* The files CubeCanvas loads, in the order it awaits them.
ObjFiles == <<"/Cube.obj", "/Ellipsoid.obj">>

\* Milliseconds between the timestamp of one frame and the next.
FrameSteps == {0, 16}

\* Date.now() at the time origin of the page, in milliseconds.
Epochs == {1000, 90000}

\* Date.now(): the epoch clock, against the clock of the frame timestamps.
DateNow == epoch + clock

\* The component has rendered once and its canvas is committed; the effect
\* of that render is scheduled, with the dependencies the render evaluated
\* (ThreeDLoader read ref.current before the canvas was committed).
InitRender ==
    /\ component \in Components
    /\ data = <<>>
    /\ result = Pending
    /\ pc = "idle"
    /\ effect = "scheduled"
    /\ calls = <<>>
    /\ loops = <<>>
    /\ refCurrent = TRUE
    /\ deps = IF component = "ThreeDLoader" THEN "null" ELSE "canvasRef"
    /\ renders = 1
    /\ clock = 0
    /\ epoch \in Epochs

\* The calls of a loadShader that fails: the shader is deleted and the
\* function throws.
FailedShaderCalls ==
    << Call("clearColor", ""), Call("clearDepth", ""),
       Call("enable", "DEPTH_TEST"), Call("depthFunc", "LEQUAL") >>
    \o loadShaderCalls("VERTEX_SHADER")
    \o << Call("deleteShader", "VERTEX_SHADER") >>

ObjLocationCalls ==
    << Call("getUniformLocation", "uProjectionMatrix"),
       Call("getUniformLocation", "uModelViewMatrix"),
       Call("getUniformLocation", "uVertexColor"),
       Call("getUniformLocation", "uNormalMatrix"),
       Call("getAttribLocation", "aVertexPosition"),
       Call("enableVertexAttribArray", "aVertexPosition"),
       Call("getAttribLocation", "aVertexNormal"),
       Call("enableVertexAttribArray", "aVertexNormal"),
       Call("getAttribLocation", "aTextureCoord"),
       Call("enableVertexAttribArray", "aTextureCoord") >>

\* The effect of CubeCanvas, from getContext to its first await: it returns
\* without a context, rejects when a shader fails, and otherwise calls load,
\* which calls fetch.
CubeCanvasEffect(outcome) ==
    /\ IsCubeCanvas
    /\ effect = "scheduled"
    /\ refCurrent
    /\ CASE outcome = "noContext" ->
              /\ effect' = "returned"
              /\ calls' = calls \o <<Call("getContext", "webgl")>>
              /\ pc' = pc
         [] outcome = "throws" ->
              /\ effect' = "rejected"
              /\ calls' = calls \o <<Call("getContext", "webgl")>> \o FailedShaderCalls
              /\ pc' = pc
         [] outcome = "ok" ->
              /\ effect' = "awaitLoad"
              /\ calls' = calls \o <<Call("getContext", "webgl")>> \o ProgramCalls
                     \o (IF component = "CubeCanvasStl" THEN StlLocationCalls
                         ELSE ObjLocationCalls)
                     \o <<Call("fetch", IF component = "CubeCanvasStl"
                                        THEN "/Box.stl" ELSE ObjFiles[1])>>
              /\ pc' = "fetch"
    /\ UNCHANGED <<data, result, component, loops, refCurrent, deps, renders,
                   clock, epoch>>

\* await fetch(filename): the response arrives and its body is read, or
\* the fetch rejects and load rejects with it.
FetchSettled(ok) ==
    /\ pc = "fetch"
    /\ IF ok
       THEN /\ pc' = "body"
            /\ calls' = calls \o <<Call("fetch.resolved", ""),
                                   Call(IF component = "CubeCanvasStl"
                                        THEN "arrayBuffer" ELSE "text", "")>>
            /\ UNCHANGED result
       ELSE /\ pc' = "done"
            /\ result' = NetworkError
            /\ UNCHANGED calls
    /\ UNCHANGED <<data, component, effect, loops, refCurrent, deps, renders,
                   clock, epoch>>

\* await results.arrayBuffer(); return parse(buffer): the body arrives and
\* parse runs on it, returning the model or throwing.
ArrayBufferSettled(d) ==
    /\ pc = "body"
    /\ component = "CubeCanvasStl"
    /\ data' = d
    /\ result' = parse(d)
    /\ calls' = calls \o <<Call("arrayBuffer.resolved", ""), Call("parse", "")>>
                      \o (IF IsError(parse(d)) THEN <<>>
                          ELSE <<Call("parse.returned", "")>>)
    /\ pc' = "done"
    /\ UNCHANGED <<component, effect, loops, refCurrent, deps, renders,
                   clock, epoch>>

\* new Mesh(await results.text()) of obj-loader's load: result counts the
\* meshes loaded so far.
TextSettled ==
    /\ pc = "body"
    /\ component = "CubeCanvasObj"
    /\ result' = [meshes |-> IF result = Pending THEN 1 ELSE result.meshes + 1]
    /\ calls' = calls \o <<Call("text.resolved", ""), Call("Mesh", "")>>
    /\ pc' = "done"
    /\ UNCHANGED <<data, component, effect, loops, refCurrent, deps, renders,
                   clock, epoch>>

\* The body read rejects, and load rejects with it.
BodyRejected ==
    /\ pc = "body"
    /\ result' = NetworkError
    /\ pc' = "done"
    /\ UNCHANGED <<data, calls, component, effect, loops, refCurrent, deps,
                   renders, clock, epoch>>


\* Mutant of StlSetupCalls: the first frame is requested before the upload.
StlSetupCallsFrameFirst(m) ==
    requestAnimationFrame \o initBuffers(m) \o StlSceneCalls

\* The effect of the STL CubeCanvas after `await load`: initBuffers, the
\* attributes and uniforms, and the first window.requestAnimationFrame(draw).
StlSetupCalls(m) ==
    initBuffers(m) \o StlSceneCalls \o requestAnimationFrame

\* The same stretch of the OBJ CubeCanvas, with the buffers of both meshes.
ObjSetupCalls ==
    << Call("initMeshBuffers", ObjFiles[1]), Call("initMeshBuffers", ObjFiles[2]),
       Call("useProgram", ""),
       Call("uniformMatrix4fv", "uProjectionMatrix"),
       Call("uniformMatrix4fv", "uModelViewMatrix"),
       Call("uniform4f", "uVertexColor") >>
    \o requestAnimationFrame

\* The effect resumes after `await load(...)`: a rejected load rejects the
\* async function there; the OBJ component awaits its second file after
\* the first; otherwise the scene is set up and the loop starts with
\* `let time = 0`.
Loaded ==
    /\ IsCubeCanvas
    /\ effect = "awaitLoad"
    /\ pc = "done"
    /\ IF IsError(result)
       THEN /\ effect' = "rejected"
            /\ UNCHANGED <<calls, loops, pc>>
       ELSE IF component = "CubeCanvasObj" /\ result.meshes < Len(ObjFiles)
       THEN /\ calls' = calls \o <<Call("fetch", ObjFiles[result.meshes + 1])>>
            /\ pc' = "fetch"
            /\ UNCHANGED <<effect, loops>>
       ELSE /\ effect' = "running"
            /\ calls' = calls \o (IF component = "CubeCanvasStl"
                                  THEN StlSetupCalls(result) ELSE ObjSetupCalls)
            /\ loops' = <<NewLoop(0)>>
            /\ pc' = pc
    /\ UNCHANGED <<data, result, component, refCurrent, deps, renders,
                   clock, epoch>>

\* Mutant of drawCount: one vertex per component.
drawCountPerComponent(m) == Len(m.position)

\* data.position.length / 3, the vertex count of drawArrays.
drawCount(m) == Len(m.position) \div 3

\* The calls of draw(now) of the STL CubeCanvas.
StlDrawCalls(m) ==
    << Call("uniformMatrix4fv", "uModelViewMatrix"),
       Call("uniformMatrix4fv", "uNormalMatrix"),
       Call("clear", ""),
       [Call("drawArrays", "TRIANGLES") EXCEPT !.n = drawCount(m)] >>
    \o requestAnimationFrame

\* drawMesh of the OBJ CubeCanvas, for a mesh without textures.
ObjMeshCalls(file) ==
    << Call("disableVertexAttribArray", "aTextureCoord"),
       Call("bindBuffer", "vertexBuffer"),
       Call("vertexAttribPointer", "aVertexPosition"),
       Call("bindBuffer", "normalBuffer"),
       Call("vertexAttribPointer", "aVertexNormal"),
       Call("bindBuffer", "indexBuffer"),
       Call("drawElements", file) >>

\* The calls of draw(now) of the OBJ CubeCanvas.
ObjDrawCalls ==
    << Call("uniformMatrix4fv", "uModelViewMatrix"),
       Call("uniformMatrix4fv", "uNormalMatrix"),
       Call("clear", "") >>
    \o ObjMeshCalls(ObjFiles[1]) \o ObjMeshCalls(ObjFiles[2])
    \o requestAnimationFrame

\* The timestamps a loop has seen, once the frame at `now` has run.
Seen(l, now) ==
    [l EXCEPT !.frames = @ + 1,
              !.first = IF l.frames = 0 THEN now ELSE @,
              !.last = now,
              !.elapsed = now - (IF l.frames = 0 THEN l.start ELSE l.last)]

\* draw(now) of CubeCanvas on the loop's closure: time is taken from the
\* first timestamp while it is still 0, the matrix turns by deltaTime * 1.6,
\* time advances by deltaTime, and the next frame is requested.
CubeCanvasDraw(l, now) ==
    LET time == IF l.time = 0 THEN now ELSE l.time
        deltaTime == now - time
    IN  [Seen(l, now) EXCEPT !.time = time + deltaTime,
                             !.deltaTime = deltaTime,
                             !.angle = @ + Rotation(deltaTime),
                             !.requested = 1,
                             !.pending = @ - 1 + 1]

\* The host runs the pending callback of CubeCanvas with the timestamp of
\* the frame.
CubeCanvasFrame(dt) ==
    /\ IsCubeCanvas
    /\ loops # <<>>
    /\ loops[1].pending > 0
    /\ loops[1].frames < MaxFrames
    /\ clock' = clock + dt
    /\ loops' = <<CubeCanvasDraw(loops[1], clock + dt)>>
    /\ calls' = calls \o InFrame(IF component = "CubeCanvasStl"
                                 THEN StlDrawCalls(result) ELSE ObjDrawCalls,
                                 1, loops[1].frames + 1)
    /\ UNCHANGED <<data, result, pc, component, effect, refCurrent, deps,
                   renders, epoch>>


\* compileAndLinkProgram and loadMesh of ThreeDLoader, then the uniforms
\* and the first requestAnimationFrame(draw).
ThreeDLoaderCalls ==
    <<Call("getContext", "webgl")>> \o ProgramCalls \o ObjLocationCalls
    \o << Call("Mesh", "Box.obj"), Call("initMeshBuffers", "Box.obj"),
          Call("useProgram", ""),
          Call("uniformMatrix4fv", "uProjectionMatrix"),
          Call("uniformMatrix4fv", "uModelViewMatrix"),
          Call("uniform4f", "uVertexColor") >>
    \o requestAnimationFrame

\* The first effect of ThreeDLoader, run because its dependency ref.current
\* changed: it starts a loop whose time is Date.now() * 0.001, and returns
\* no cleanup.
ThreeDLoaderEffect(outcome) ==
    /\ component = "ThreeDLoader"
    /\ effect = "scheduled"
    /\ refCurrent
    /\ CASE outcome = "noContext" ->
              /\ effect' = "returned"
              /\ calls' = calls \o <<Call("getContext", "webgl")>>
              /\ loops' = loops
         [] outcome = "throws" ->
              /\ effect' = "threw"
              /\ calls' = calls \o <<Call("getContext", "webgl")>> \o FailedShaderCalls
              /\ loops' = loops
         [] outcome = "ok" ->
              /\ effect' = "running"
              /\ calls' = calls \o ThreeDLoaderCalls
              /\ loops' = Append(loops, NewLoop(DateNow))
    /\ UNCHANGED <<data, result, pc, component, refCurrent, deps, renders,
                   clock, epoch>>

\* Mutant of RequestsNext: the callback asks for the next frame regardless.
RequestsNextAlways == TRUE

\* if (ref.current) at the end of ThreeDLoader's draw.
RequestsNext == refCurrent

\* drawMesh of ThreeDLoader, after gl.clear.
ThreeDLoaderDrawCalls ==
    << Call("clear", ""),
       Call("uniformMatrix4fv", "uModelViewMatrix"),
       Call("uniformMatrix4fv", "uNormalMatrix") >>
    \o ObjMeshCalls("Box.obj")
    \o (IF RequestsNext THEN requestAnimationFrame ELSE <<>>)

\* draw(now) of ThreeDLoader: deltaTime is now - time, time becomes now,
\* and the next frame is requested while ref.current is set.
ThreeDLoaderDraw(l, now) ==
    LET deltaTime == now - l.time
    IN  [Seen(l, now) EXCEPT !.time = now,
                             !.deltaTime = deltaTime,
                             !.angle = @ + Rotation(deltaTime),
                             !.requested = IF RequestsNext THEN 1 ELSE 0,
                             !.afterUnmount = IF refCurrent THEN @ ELSE @ + 1,
                             !.pending = @ - 1 + (IF RequestsNext THEN 1 ELSE 0)]

\* The calls of one animation frame: those of every loop with a pending
\* callback, in the order the loops were started.
RECURSIVE FrameCalls(_)
FrameCalls(i) ==
    IF i > Len(loops) THEN <<>>
    ELSE (IF loops[i].pending > 0
          THEN InFrame(ThreeDLoaderDrawCalls, i, loops[i].frames + 1)
          ELSE <<>>) \o FrameCalls(i + 1)

\* The host runs an animation frame: every callback of ThreeDLoader pending
\* at its start runs, one after the other, with the frame's timestamp.  A
\* loop runs MaxFrames frames while the component is mounted; what is
\* pending at the unmount still runs.
ThreeDLoaderFrame(dt) ==
    /\ component = "ThreeDLoader"
    /\ \E i \in DOMAIN loops : loops[i].pending > 0
    /\ \A i \in DOMAIN loops : loops[i].frames < MaxFrames \/ ~refCurrent
    /\ clock' = clock + dt
    /\ loops' = [i \in DOMAIN loops |->
                    IF loops[i].pending > 0
                    THEN ThreeDLoaderDraw(loops[i], clock + dt)
                    ELSE loops[i]]
    /\ calls' = calls \o FrameCalls(1)
    /\ UNCHANGED <<data, result, pc, component, effect, refCurrent, deps,
                   renders, epoch>>

\* The dependencies the component's render evaluates for its first effect:
\* [canvasRef] in CubeCanvas, [ref.current] in ThreeDLoader.
RenderDeps ==
    IF component = "ThreeDLoader"
    THEN (IF refCurrent THEN "canvas" ELSE "null")
    ELSE "canvasRef"

\* The component renders again (its parent rendered): the effect is
\* scheduled again when its dependencies differ from the last render's.
Rerender ==
    /\ component \in Components
    /\ refCurrent
    /\ effect # "scheduled"
    /\ renders < MaxRenders
    /\ renders' = renders + 1
    /\ deps' = RenderDeps
    /\ effect' = IF RenderDeps # deps THEN "scheduled" ELSE effect
    /\ UNCHANGED <<data, result, pc, component, calls, loops, refCurrent,
                   clock, epoch>>

\* ThreeDLoader is unmounted: the cleanup of its second effect sets
\* ref.current to null; an effect still scheduled never runs.
Unmount ==
    /\ component = "ThreeDLoader"
    /\ refCurrent
    /\ refCurrent' = FALSE
    /\ effect' = IF effect = "scheduled" THEN "cancelled" ELSE effect
    /\ UNCHANGED <<data, result, pc, component, calls, loops, deps, renders,
                   clock, epoch>>

FrameStep ==
    \/ \E dt \in FrameSteps : CubeCanvasFrame(dt)
    \/ \E dt \in FrameSteps : ThreeDLoaderFrame(dt)

NextRender ==
    \/ \E outcome \in SetupOutcomes : CubeCanvasEffect(outcome)
    \/ \E ok \in BOOLEAN : FetchSettled(ok)
    \/ \E d \in LoadInputs : ArrayBufferSettled(d)
    \/ TextSettled
    \/ BodyRejected
    \/ Loaded
    \/ \E outcome \in SetupOutcomes : ThreeDLoaderEffect(outcome)
    \/ Rerender
    \/ Unmount
    \/ FrameStep

\* The components, from their first render on.
SpecRender == InitRender /\ [][NextRender]_vars

\* The same, with the host running every frame callback it has been asked
\* for.
SpecRenderFair == SpecRender /\ WF_vars(FrameStep)


\* ---------------------------------------------------------------------
\* The load path and the render loop of the STL CubeCanvas.
\* ---------------------------------------------------------------------

\* The positions in the log of the calls named c with argument a.
At(c, a) == {k \in DOMAIN calls : calls[k].call = c /\ calls[k].arg = a}

\* The positions of the calls named c, whatever their argument.
Named(c) == {k \in DOMAIN calls : calls[k].call = c}

\* Every call at a position of later comes after some call at a position
\* of earlier.
Precedes(earlier, later) == \A k \in later : \E j \in earlier : j < k

IsStl == component = "CubeCanvasStl"

\* The calls that create or fill a vertex buffer.
BufferCalls == Named("createBuffer") \cup Named("bufferData")

\* The calls that ask for a frame or draw.
FrameCallsOrDraws == Named("requestAnimationFrame") \cup Named("drawArrays")

\* C12: the STL load path is one linear pipeline: parse is invoked only
\* after the fetch and the arrayBuffer read have resolved, the vertex
\* buffers are created and filled only after parse has returned, and a
\* frame is requested (and a draw call issued) only after both the position
\* and the normals buffer have been filled; each stage happens once.
C12_LinearPipeline ==
    IsStl =>
        /\ Precedes(Named("fetch"), Named("fetch.resolved"))
        /\ Precedes(Named("fetch.resolved"), Named("arrayBuffer"))
        /\ Precedes(Named("arrayBuffer"), Named("arrayBuffer.resolved"))
        /\ Precedes(Named("arrayBuffer.resolved"), Named("parse"))
        /\ Precedes(Named("parse"), Named("parse.returned"))
        /\ Precedes(Named("parse.returned"), BufferCalls)
        /\ Precedes(At("bufferData", "position"), FrameCallsOrDraws)
        /\ Precedes(At("bufferData", "normals"), FrameCallsOrDraws)
        /\ Precedes(Named("requestAnimationFrame"), Named("drawArrays"))
        /\ \A c \in {"fetch", "arrayBuffer", "parse"} : Cardinality(Named(c)) <= 1
        /\ \A a \in {"position", "normals"} : Cardinality(At("bufferData", a)) <= 1
        /\ loops # <<>> => Returned

C12_Witness ==
    /\ IsStl
    /\ Named("drawArrays") # {}
    /\ At("bufferData", "position") # {}
    /\ At("bufferData", "normals") # {}
    /\ Named("parse") # {}
    /\ loops[1].frames = 2

\* C13: when load rejects (the fetch or the body read rejects, or parse
\* throws), the effect stops there: no vertex buffer is created or filled,
\* no frame is requested, no draw call is issued and no loop exists.
C13_LoadFailureAborts ==
    (IsStl /\ pc = "done" /\ IsError(result)) =>
        /\ BufferCalls = {}
        /\ FrameCallsOrDraws = {}
        /\ loops = <<>>
        /\ effect \in {"awaitLoad", "rejected"}

C13_Witness ==
    /\ IsStl
    /\ pc = "done"
    /\ result = RangeError
    /\ Named("parse") # {}
    /\ effect = "rejected"
    /\ renders = MaxRenders

\* C14 as stated: a model with colours has its colours array uploaded as a
\* vertex buffer before the first draw call.
C14_ColorsUploaded ==
    (IsStl /\ Returned /\ result.hasColors /\ Named("drawArrays") # {}) =>
        /\ At("bufferData", "colors") # {}
        /\ Precedes(At("bufferData", "colors"), Named("drawArrays"))

\* C14, amended: the upload step fills exactly two vertex buffers, with the
\* model's position and normals arrays, before the first draw call; the
\* colours array is never uploaded, whether the model has colours or not.
C14_OnlyPositionAndNormals ==
    (IsStl /\ effect = "running") =>
        /\ { calls[k].arg : k \in Named("bufferData") } = {"position", "normals"}
        /\ \A k \in At("bufferData", "position") : calls[k].n = Len(result.position)
        /\ \A k \in At("bufferData", "normals") : calls[k].n = Len(result.normals)
        /\ Precedes(At("bufferData", "position"), Named("drawArrays"))
        /\ Precedes(At("bufferData", "normals"), Named("drawArrays"))
        /\ At("bufferData", "colors") = {}

C14_Witness ==
    /\ IsStl
    /\ effect = "running"
    /\ result.hasColors
    /\ Len(result.colors) = 18
    /\ Named("drawArrays") # {}
    /\ At("bufferData", "colors") = {}

\* The positions of the calls of frame f.
OfFrame(f) == {k \in DOMAIN calls : calls[k].frame = f}

\* C15: every frame callback of the STL loop issues exactly one drawArrays,
\* for position.length / 3 = 3 * facetCount vertices, after that frame's
\* uploads of the model-view and the normal matrix.
C15_OneDrawPerFrame ==
    (IsStl /\ loops # <<>>) =>
        \A f \in 1..loops[1].frames :
            LET draws == OfFrame(f) \cap Named("drawArrays")
            IN  /\ Cardinality(draws) = 1
                /\ \A k \in draws :
                    /\ calls[k].n * 3 = Len(result.position)
                    /\ calls[k].n = 3 * FacetCount
                    /\ \E j \in OfFrame(f) \cap At("uniformMatrix4fv", "uModelViewMatrix") :
                            j < k
                    /\ \E j \in OfFrame(f) \cap At("uniformMatrix4fv", "uNormalMatrix") :
                            j < k

C15_Witness ==
    /\ IsStl
    /\ loops # <<>>
    /\ loops[1].frames = MaxFrames
    /\ FacetCount = 2
    /\ \E k \in Named("drawArrays") : calls[k].frame = MaxFrames /\ calls[k].n = 6


\* ---------------------------------------------------------------------
\* The render loops: how many callbacks wait, and what each frame turns by.
\* ---------------------------------------------------------------------

\* The frame callbacks of the component waiting for the next frame.
RECURSIVE PendingFrom(_)
PendingFrom(i) ==
    IF i > Len(loops) THEN 0 ELSE loops[i].pending + PendingFrom(i + 1)

PendingCallbacks == PendingFrom(1)

\* C16: frame callbacks never multiply: a callback requests the next frame
\* at most once, and at every moment a mounted component has at most one
\* frame callback pending.
C16_OneCallbackPerComponent ==
    refCurrent =>
        /\ \A i \in DOMAIN loops : loops[i].requested <= 1
        /\ PendingCallbacks <= 1

IsThreeDLoader == component = "ThreeDLoader"

\* C17: in the loop of CubeCanvas the first frame turns the matrix by 0 and
\* every later frame by 1.6 rad for each second since the frame before, so
\* that after a frame the total angle is 1.6 rad for each second since the
\* first frame; timestamps of 0 included.
C17_FixedRatePerSecond ==
    (IsCubeCanvas /\ loops # <<>>) =>
        LET l == loops[1]
        IN  /\ l.frames = 1 => l.deltaTime = 0
            /\ l.frames >= 2 => l.deltaTime = l.elapsed
            /\ l.angle = Rotation(l.last - l.first)

\* After the unmount a callback runs at most once more and requests nothing;
\* while the component is mounted the latest callback of every loop has
\* requested exactly one next frame, which is pending.
LoopStopsAtUnmount ==
    IsThreeDLoader =>
        \A i \in DOMAIN loops :
            /\ loops[i].afterUnmount <= 1
            /\ loops[i].pending \in {0, 1}
            /\ loops[i].afterUnmount = 1 =>
                    loops[i].requested = 0 /\ loops[i].pending = 0
            /\ (refCurrent /\ loops[i].frames >= 1) =>
                    loops[i].requested = 1 /\ loops[i].pending = 1

Unmounted == IsThreeDLoader /\ ~refCurrent

\* C18: once ThreeDLoader is unmounted its loop stops: a pending callback
\* may run once more but requests no further frame, so eventually no
\* callback is pending; while mounted, every callback requests exactly one
\* next frame.
C18_LoopStopsAfterUnmount ==
    /\ []LoopStopsAtUnmount
    /\ Unmounted ~> (PendingCallbacks = 0)

C18_Witness ==
    /\ Unmounted
    /\ loops # <<>>
    /\ loops[1].frames >= 2
    /\ loops[1].afterUnmount = 1
    /\ PendingCallbacks = 0

\* C19: in ThreeDLoader the deltaTime of every frame, the first included,
\* is the time elapsed since the instant time was last set (the effect, or
\* the frame before), and is never negative.
C19_DeltaTimeIsElapsed ==
    IsThreeDLoader =>
        \A i \in DOMAIN loops :
            loops[i].frames >= 1 =>
                /\ loops[i].deltaTime = loops[i].elapsed
                /\ loops[i].deltaTime >= 0

====
